---- MODULE Spec2Model ----
(***************************************************************************)
(* BME280 driver (femaref/rs-temperature): the calibration decoder, the    *)
(* three compensation functions and the driver facade of src/bme280.rs.    *)
(*                                                                         *)
(* Rust integers are modelled with their widths.  TLC's integers are 32    *)
(* bits wide, so every product, sum and 64-bit value is computed on        *)
(* 16-byte two's-complement words (least significant byte first); the      *)
(* exact result tells whether the Rust operation overflows its type, and   *)
(* the low bytes are the wrapped result.  Arithmetic overflow of + - * is  *)
(* a panic in a build with overflow checks and a wrap-around without them; *)
(* the build is a nondeterministic choice made once (overflow_checks).     *)
(***************************************************************************)
EXTENDS Integers, Sequences, FiniteSets

VARIABLES
    overflow_checks, \* the build: TRUE = overflow checks on (debug profile)
    drv,             \* driver facade: "Uninitialized", "Ready" or "Panicked"
    address,         \* BME280.address of the Ready driver, NoAddr otherwise
    cal,             \* the CalibrationData value in use, NoCal when none
    fine_src,        \* history: who wrote cal.t_fine last
    bus,             \* the bus transactions issued by the last operation
    ret              \* the last operation, its inputs and what it returned

vars == <<overflow_checks, drv, address, cal, fine_src, bus, ret>>

\* ------------------------------------------------------------------------
\* Wide two's-complement words: 16 bytes, index 1 the least significant.
\* ------------------------------------------------------------------------
WLen == 16

Pow2(k) == 2 ^ k

\* The sign-extension byte of word x.
SignByte(x) == IF x[WLen] >= 128 THEN 255 ELSE 0

\* A 32-bit signed integer as a word.
ToW(n) ==
    LET B(i) == IF i <= 4 THEN (n \div Pow2(8 * (i - 1))) % 256
                ELSE IF n < 0 THEN 255 ELSE 0
    IN <<B(1), B(2), B(3), B(4), B(5), B(6), B(7), B(8),
         B(9), B(10), B(11), B(12), B(13), B(14), B(15), B(16)>>

\* Whether word x is the sign extension of its low nb bytes.
Fits(x, nb) ==
    \A i \in (nb + 1)..WLen : x[i] = (IF x[nb] >= 128 THEN 255 ELSE 0)

\* The low nb bytes of x, sign-extended: the wrap-around to 8*nb bits.
WrapW(x, nb) ==
    LET B(i) == IF i <= nb THEN x[i] ELSE IF x[nb] >= 128 THEN 255 ELSE 0
    IN <<B(1), B(2), B(3), B(4), B(5), B(6), B(7), B(8),
         B(9), B(10), B(11), B(12), B(13), B(14), B(15), B(16)>>

\* The value of the low 32 bits of a word, read as i32.
FromW(x) ==
    (x[1] + x[2] * 256 + x[3] * 65536)
        + (IF x[4] >= 128 THEN x[4] - 256 ELSE x[4]) * 16777216

\* Bytes i, i+1 and i+2 of a and of b added with the carry c into byte i:
\* a number below 2^25 whose bits from 2^24 up are the carry into byte i+3.
AddGroup(a, b, c, i) ==
    (a[i] + b[i] + c) + (a[i + 1] + b[i + 1]) * 256
        + (a[i + 2] + b[i + 2]) * 65536

\* a + b + cin modulo 2^128, three bytes at a time.
AddCarryW(a, b, cin) ==
    LET g1 == AddGroup(a, b, cin, 1)
        g2 == AddGroup(a, b, g1 \div 16777216, 4)
        g3 == AddGroup(a, b, g2 \div 16777216, 7)
        g4 == AddGroup(a, b, g3 \div 16777216, 10)
        g5 == AddGroup(a, b, g4 \div 16777216, 13)
        g6 == a[16] + b[16] + (g5 \div 16777216)
    IN <<g1 % 256, (g1 \div 256) % 256, (g1 \div 65536) % 256,
         g2 % 256, (g2 \div 256) % 256, (g2 \div 65536) % 256,
         g3 % 256, (g3 \div 256) % 256, (g3 \div 65536) % 256,
         g4 % 256, (g4 \div 256) % 256, (g4 \div 65536) % 256,
         g5 % 256, (g5 \div 256) % 256, (g5 \div 65536) % 256,
         g6 % 256>>

NotW(a) ==
    LET B(i) == 255 - a[i]
    IN <<B(1), B(2), B(3), B(4), B(5), B(6), B(7), B(8),
         B(9), B(10), B(11), B(12), B(13), B(14), B(15), B(16)>>

ZeroW == ToW(0)

AddW(a, b) == AddCarryW(a, b, 0)

SubW(a, b) == AddCarryW(a, NotW(b), 1)

NegW(a) == AddCarryW(NotW(a), ZeroW, 1)

IsNegW(a) == a[WLen] >= 128

AbsW(a) == IF IsNegW(a) THEN NegW(a) ELSE a

\* Signed a < b, for words whose difference fits 128 bits.
LtW(a, b) == IsNegW(SubW(a, b))

\* Column k of the product: the sum of a[j] * b[k + 1 - j] for j in i..k.
RECURSIVE MulColumn(_, _, _, _)
MulColumn(a, b, k, i) ==
    IF i > k THEN 0 ELSE a[i] * b[k + 1 - i] + MulColumn(a, b, k, i + 1)

\* The product modulo 2^128 (exact for operands that fit 64 bits): column k
\* plus the carry of column k - 1 is t_k.
MulW(a, b) ==
    LET t1 == MulColumn(a, b, 1, 1)
        t2 == MulColumn(a, b, 2, 1) + (t1 \div 256)
        t3 == MulColumn(a, b, 3, 1) + (t2 \div 256)
        t4 == MulColumn(a, b, 4, 1) + (t3 \div 256)
        t5 == MulColumn(a, b, 5, 1) + (t4 \div 256)
        t6 == MulColumn(a, b, 6, 1) + (t5 \div 256)
        t7 == MulColumn(a, b, 7, 1) + (t6 \div 256)
        t8 == MulColumn(a, b, 8, 1) + (t7 \div 256)
        t9 == MulColumn(a, b, 9, 1) + (t8 \div 256)
        t10 == MulColumn(a, b, 10, 1) + (t9 \div 256)
        t11 == MulColumn(a, b, 11, 1) + (t10 \div 256)
        t12 == MulColumn(a, b, 12, 1) + (t11 \div 256)
        t13 == MulColumn(a, b, 13, 1) + (t12 \div 256)
        t14 == MulColumn(a, b, 14, 1) + (t13 \div 256)
        t15 == MulColumn(a, b, 15, 1) + (t14 \div 256)
        t16 == MulColumn(a, b, 16, 1) + (t15 \div 256)
    IN <<t1 % 256, t2 % 256, t3 % 256, t4 % 256,
         t5 % 256, t6 % 256, t7 % 256, t8 % 256,
         t9 % 256, t10 % 256, t11 % 256, t12 % 256,
         t13 % 256, t14 % 256, t15 % 256, t16 % 256>>

\* x * 2^k modulo 2^128.
ShlW(x, k) ==
    LET at(j) == IF j < 1 THEN 0 ELSE x[j]
        B(i) == ((at(i - (k \div 8)) * Pow2(k % 8)) % 256)
                    + (at(i - (k \div 8) - 1) \div Pow2(8 - (k % 8)))
    IN <<B(1), B(2), B(3), B(4), B(5), B(6), B(7), B(8),
         B(9), B(10), B(11), B(12), B(13), B(14), B(15), B(16)>>

\* floor(x / 2^k): the arithmetic shift right.
ShrW(x, k) ==
    LET at(j) == IF j > WLen THEN SignByte(x) ELSE x[j]
        B(i) == (at(i + (k \div 8)) \div Pow2(k % 8))
                    + ((at(i + (k \div 8) + 1) % Pow2(k % 8))
                            * Pow2(8 - (k % 8)))
    IN <<B(1), B(2), B(3), B(4), B(5), B(6), B(7), B(8),
         B(9), B(10), B(11), B(12), B(13), B(14), B(15), B(16)>>

\* The words -(d * 2^k) - 1 for k = 0..7: adding one of them and 1 to a
\* remainder subtracts d * 2^k from it.
DivTable(d) ==
    <<NotW(d), NotW(ShlW(d, 1)), NotW(ShlW(d, 2)), NotW(ShlW(d, 3)),
      NotW(ShlW(d, 4)), NotW(ShlW(d, 5)), NotW(ShlW(d, 6)), NotW(ShlW(d, 7))>>

\* One bit of a quotient digit: st.g gains bit when diff, the remainder less
\* d * bit, is not negative.
DivTake(st, diff, bit) ==
    IF IsNegW(diff) THEN st ELSE [g |-> st.g + bit, rem |-> diff]

DivBit(st, nd, k) == DivTake(st, AddCarryW(st.rem, nd[k + 1], 1), Pow2(k))

\* The largest g in 0..255 with g * d <= r, and the remainder r - g * d
\* (0 <= r < 256 * d), found from bit 7 down to bit 0; nd = DivTable(d).
DivDigit(r, nd) ==
    DivBit(DivBit(DivBit(DivBit(DivBit(DivBit(DivBit(DivBit(
        [g |-> 0, rem |-> r], nd, 7), nd, 6), nd, 5), nd, 4), nd, 3),
        nd, 2), nd, 1), nd, 0)

\* Unsigned long division of n (n < 2^64) by d > 0, nd = DivTable(d), one
\* byte at a time from byte i down to byte 1, r the remainder so far: the
\* quotient's bytes, most significant first.
RECURSIVE UDivBytes(_, _, _, _)
UDivRest(n, nd, s, i) == <<s.g>> \o UDivBytes(n, nd, s.rem, i - 1)

UDivBytes(n, nd, r, i) ==
    IF i < 1 THEN <<>>
    ELSE UDivRest(n, nd, DivDigit(AddW(ShlW(r, 8), ToW(n[i])), nd), i)

\* The quotient bytes q, most significant first, as a word.
QuotientW(q) ==
    <<q[8], q[7], q[6], q[5], q[4], q[3], q[2], q[1],
      0, 0, 0, 0, 0, 0, 0, 0>>

\* Rust's integer division of 64-bit operands: the quotient truncated
\* towards zero (d # 0; |n| <= 2^63 fits the low 8 bytes).
DivW(n, d) ==
    IF IsNegW(n) # IsNegW(d)
    THEN NegW(QuotientW(UDivBytes(AbsW(n), DivTable(AbsW(d)), ZeroW, 8)))
    ELSE QuotientW(UDivBytes(AbsW(n), DivTable(AbsW(d)), ZeroW, 8))

\* ------------------------------------------------------------------------
\* Rust integer operations.  An operand or result is a record: v, the value
\* wrapped to the type's width (i32: an integer, i64: a word), and o, whether
\* a + - or * on the way to it overflowed its type.
\* ------------------------------------------------------------------------

\* A value of type i32 and of type i64 (from a 32-bit value) with no overflow
\* behind it.
I32(n) == [v |-> n, o |-> FALSE]

I64(n) == [v |-> ToW(n), o |-> FALSE]

\* The exact result x of an i32 or an i64 operation whose operands carried
\* overflow o.
Checked32(x, o) == [v |-> FromW(x), o |-> o \/ ~Fits(x, 4)]

Checked64(x, o) == [v |-> WrapW(x, 8), o |-> o \/ ~Fits(x, 8)]

\* i32::MAX
MaxI32 == 2147483647

\* x + y of 32-bit integers: the sum of two positive numbers wraps by
\* -2^32, of two negative ones by +2^32.
Sum32(x, y, o) ==
    IF x > 0 /\ y > 0 /\ x > MaxI32 - y
    THEN [v |-> ((x - MaxI32) - 1) + ((y - MaxI32) - 1), o |-> TRUE]
    ELSE IF x < 0 /\ y < 0 /\ x < ((-MaxI32) - 1) - y
    THEN [v |-> ((x + MaxI32) + 1) + ((y + MaxI32) + 1), o |-> TRUE]
    ELSE [v |-> x + y, o |-> o]

\* x - y of 32-bit integers; -y is no i32 for y = i32::MIN.
Diff32(x, y, o) ==
    IF y >= -MaxI32 THEN Sum32(x, -y, o)
    ELSE IF x < 0 THEN [v |-> (x + MaxI32) + 1, o |-> o]
    ELSE [v |-> (x - MaxI32) - 1, o |-> TRUE]

\* The greatest |x| whose product with y is sure to fit 32 bits.
MulBound(y) ==
    IF y = 0 THEN MaxI32
    ELSE IF y > 0 THEN MaxI32 \div y
    ELSE IF y < 0 /\ y >= -MaxI32 THEN MaxI32 \div (-y)
    ELSE 0

\* i32 + - *
Add32(a, b) == Sum32(a.v, b.v, a.o \/ b.o)

Sub32(a, b) == Diff32(a.v, b.v, a.o \/ b.o)

Mul32(a, b) ==
    IF a.v <= MulBound(b.v) /\ a.v >= -MulBound(b.v)
    THEN [v |-> a.v * b.v, o |-> a.o \/ b.o]
    ELSE Checked32(MulW(ToW(a.v), ToW(b.v)), a.o \/ b.o)

\* i32 << k and i32 >> k: the bits shifted out are dropped in every build,
\* the right shift is arithmetic.
Shl32(a, k) == [v |-> FromW(ShlW(ToW(a.v), k)), o |-> a.o]

Shr32(a, k) == [v |-> a.v \div Pow2(k), o |-> a.o]

\* i32 / c for a constant c > 0: truncation towards zero.
Div32(a, c) ==
    [v |-> IF a.v >= 0 THEN a.v \div c ELSE (a.v + (c - 1)) \div c,
     o |-> a.o]

\* i64 + - *
Add64(a, b) == Checked64(AddW(a.v, b.v), a.o \/ b.o)

Sub64(a, b) == Checked64(SubW(a.v, b.v), a.o \/ b.o)

Mul64(a, b) == Checked64(MulW(a.v, b.v), a.o \/ b.o)

\* i64 << k and i64 >> k.
Shl64(a, k) == [v |-> WrapW(ShlW(a.v, k), 8), o |-> a.o]

Shr64(a, k) == [v |-> ShrW(a.v, k), o |-> a.o]

\* i64::MIN, the only dividend whose division (by -1) overflows.
MinI64 == WrapW(ShlW(ToW(1), 63), 8)

\* i64 / d for d # 0; p: the division overflows, a panic in every build.
Div64(a, d) ==
    [v |-> IF a.v = MinI64 /\ d.v = ToW(-1) THEN a.v
           ELSE WrapW(DivW(a.v, d.v), 8),
     o |-> a.o \/ d.o,
     p |-> a.v = MinI64 /\ d.v = ToW(-1)]

\* a | b and a & b on non-negative bit patterns.
RECURSIVE BitOr(_, _)
BitOr(a, b) ==
    IF a = 0 THEN b
    ELSE IF b = 0 THEN a
    ELSE (IF a % 2 = 1 \/ b % 2 = 1 THEN 1 ELSE 0)
            + 2 * BitOr(a \div 2, b \div 2)

RECURSIVE BitAnd(_, _)
BitAnd(a, b) ==
    IF a = 0 \/ b = 0 THEN 0
    ELSE (IF a % 2 = 1 /\ b % 2 = 1 THEN 1 ELSE 0)
            + 2 * BitAnd(a \div 2, b \div 2)

\* A 16-bit pattern read as i16, an 8-bit pattern read as i8.
AsI16(u) == IF u >= 32768 THEN u - 65536 ELSE u

AsI8(u) == IF u >= 128 THEN u - 256 ELSE u

\* x << k kept to 16 bits (u16 and i16 shifts drop the bits shifted out).
Shl16(x, k) == (x * Pow2(k)) % 65536

\* ------------------------------------------------------------------------
\* CalibrationData (src/bme280.rs, the same code as src/bme280/calibration.rs)
\* ------------------------------------------------------------------------

\* The length from_vec accepts.
CalibLen == 42

\* input[i] of a Vec<u8>: Rust indexes from 0, a TLA+ sequence from 1.
At(input, i) == input[i + 1]

\* concat_bytes!(u16, v, i) = (v[i + 1] as u16) << 8 | (v[i] as u16)
concat_bytes_u16(v, i) == BitOr(Shl16(At(v, i + 1), 8), At(v, i))

\* concat_bytes!(i16, v, i) = (v[i + 1] as i16) << 8 | (v[i] as i16)
concat_bytes_i16(v, i) == AsI16(BitOr(Shl16(At(v, i + 1), 8), At(v, i)))

\* dig_H4: (input[29] as i16) << 4 | (input[30] as i16) & 0b1111
unpack_H4(input) ==
    AsI16(BitOr(Shl16(At(input, 29), 4), BitAnd(At(input, 30), 15)))

\* dig_H5: (input[30] as i16) >> 4 | (input[31] as i16) << 4
unpack_H5(input) ==
    AsI16(BitOr(At(input, 30) \div 16, Shl16(At(input, 31), 4)))

\* The indices of the input the decoder reads.
DecodedIndices == (0..23) \cup (25..32)

\* The CalibrationData from_vec builds from a buffer of CalibLen bytes.
decode(input) ==
    [dig_T1 |-> concat_bytes_u16(input, 0),
     dig_T2 |-> concat_bytes_i16(input, 2),
     dig_T3 |-> concat_bytes_i16(input, 4),
     dig_P1 |-> concat_bytes_u16(input, 6),
     dig_P2 |-> concat_bytes_i16(input, 8),
     dig_P3 |-> concat_bytes_i16(input, 10),
     dig_P4 |-> concat_bytes_i16(input, 12),
     dig_P5 |-> concat_bytes_i16(input, 14),
     dig_P6 |-> concat_bytes_i16(input, 16),
     dig_P7 |-> concat_bytes_i16(input, 18),
     dig_P8 |-> concat_bytes_i16(input, 20),
     dig_P9 |-> concat_bytes_i16(input, 22),
     dig_H1 |-> At(input, 25),
     dig_H2 |-> concat_bytes_i16(input, 26),
     dig_H3 |-> At(input, 28),
     dig_H4 |-> unpack_H4(input),
     dig_H5 |-> unpack_H5(input),
     dig_H6 |-> AsI8(At(input, 32)),
     t_fine |-> 0]

\* from_vec with the length check `input.len() < 42`: a longer buffer is
\* decoded.
from_vec_at_least(input) ==
    IF Len(input) < CalibLen
    THEN [kind |-> "Err", error |-> "CalibrationLengthError", read |-> {}]
    ELSE [kind |-> "Ok", read |-> DecodedIndices, value |-> decode(input)]

\* CalibrationData::from_vec; read: the indices of the input it reads.
from_vec(input) ==
    IF Len(input) # CalibLen
    THEN [kind |-> "Err", error |-> "CalibrationLengthError", read |-> {}]
    ELSE [kind |-> "Ok", read |-> DecodedIndices, value |-> decode(input)]

\* CalibrationData::default(): every field zero.
CalibrationDefault ==
    [dig_T1 |-> 0, dig_T2 |-> 0, dig_T3 |-> 0,
     dig_P1 |-> 0, dig_P2 |-> 0, dig_P3 |-> 0, dig_P4 |-> 0, dig_P5 |-> 0,
     dig_P6 |-> 0, dig_P7 |-> 0, dig_P8 |-> 0, dig_P9 |-> 0,
     dig_H1 |-> 0, dig_H2 |-> 0, dig_H3 |-> 0, dig_H4 |-> 0, dig_H5 |-> 0,
     dig_H6 |-> 0, t_fine |-> 0]


\* The compensation functions are straight-line code.  Each is modelled
\* statement by statement on a record st of its local variables: pc is the
\* statement to run next, and panic is set, with nothing assigned, when the
\* statement panics.
\*
\* `reg = r;` where r overflowed panics in a build with overflow checks and
\* assigns the wrapped value in a build without.
Assign(st, reg, r) ==
    IF r.o /\ st.checks THEN [st EXCEPT !.panic = TRUE]
    ELSE [st EXCEPT ![reg] = r.v, !.pc = @ + 1]

\* `reg = n / d;`: the division itself overflows for i64::MIN / -1.
AssignDiv(st, reg, r) ==
    IF r.p THEN [st EXCEPT !.panic = TRUE] ELSE Assign(st, reg, r)

\* A statement that changes no variable.
Skip(st) == [st EXCEPT !.pc = @ + 1]

\* The statements of compensate_temperature.
temperature_stmt(self, raw_temperature, st) ==
    CASE st.pc = 1 ->
            Assign(st, "var1",
                Shr32(Mul32(Sub32(Shr32(I32(raw_temperature), 3),
                                  Shl32(I32(self.dig_T1), 1)),
                            I32(self.dig_T2)),
                      11))
      [] st.pc = 2 ->
            Assign(st, "var2",
                Shr32(Mul32(Shr32(Mul32(Sub32(Shr32(I32(raw_temperature), 4),
                                              I32(self.dig_T1)),
                                        Sub32(Shr32(I32(raw_temperature), 4),
                                              I32(self.dig_T1))),
                                  12),
                            I32(self.dig_T3)),
                      14))
      [] st.pc = 3 ->
            Assign(st, "t_fine", Add32(I32(st.var1), I32(st.var2)))
      [] st.pc = 4 ->
            Assign(st, "temperature",
                Shr32(Add32(Mul32(I32(st.t_fine), I32(5)), I32(128)), 8))

RECURSIVE temperature_run(_, _, _)
temperature_run(self, raw_temperature, st) ==
    IF st.panic \/ st.pc > 4 THEN st
    ELSE temperature_run(self, raw_temperature,
                         temperature_stmt(self, raw_temperature, st))

\* compensate_temperature with the fine-value kept in a local variable:
\* self.t_fine is never assigned.
temperature_result_local(self, st) ==
    [kind |-> IF st.panic THEN "Panic" ELSE "Ok",
     value |-> st.temperature,
     wrote |-> FALSE,
     self |-> self]

\* What the call leaves behind: self.t_fine is assigned by statement 3, so
\* a panic of statement 4 leaves the new t_fine stored (wrote).
temperature_result(self, st) ==
    [kind |-> IF st.panic THEN "Panic" ELSE "Ok",
     value |-> st.temperature,
     wrote |-> st.pc > 3,
     self |-> [self EXCEPT !.t_fine = st.t_fine]]

\* CalibrationData::compensate_temperature(&mut self, raw_temperature) in a
\* build with (checks) or without overflow checks.
compensate_temperature(self, raw_temperature, checks) ==
    temperature_result(self,
        temperature_run(self, raw_temperature,
            [checks |-> checks, panic |-> FALSE, pc |-> 1, var1 |-> 0,
             var2 |-> 0, t_fine |-> self.t_fine, temperature |-> 0]))

\* An i64 local variable read in an expression.
Var64(w) == [v |-> w, o |-> FALSE]

\* The statements of compensate_pressure.
pressure_stmt(self, raw_pressure, st) ==
    CASE st.pc = 1 ->
            Assign(st, "var1", Sub64(I64(self.t_fine), I64(128000)))
      [] st.pc = 2 ->
            Assign(st, "var2",
                Mul64(Mul64(Var64(st.var1), Var64(st.var1)),
                      I64(self.dig_P6)))
      [] st.pc = 3 ->
            Assign(st, "var2",
                Add64(Var64(st.var2),
                      Shl64(Mul64(Var64(st.var1), I64(self.dig_P5)), 17)))
      [] st.pc = 4 ->
            Assign(st, "var2",
                Add64(Var64(st.var2), Shl64(I64(self.dig_P4), 35)))
      [] st.pc = 5 ->
            Assign(st, "var1",
                Add64(Shr64(Mul64(Mul64(Var64(st.var1), Var64(st.var1)),
                                  I64(self.dig_P3)),
                            8),
                      Shl64(Mul64(Var64(st.var1), I64(self.dig_P2)), 12)))
      [] st.pc = 6 ->
            Assign(st, "var1",
                Shr64(Mul64(Add64(Shl64(I64(1), 47), Var64(st.var1)),
                            I64(self.dig_P1)),
                      33))
      [] st.pc = 7 ->
            IF st.var1 = ZeroW
            THEN [st EXCEPT !.returned = TRUE, !.pressure = ZeroW]
            ELSE Skip(st)
      [] st.pc = 8 ->
            Assign(st, "pressure", Sub64(I64(1048576), I64(raw_pressure)))
      [] st.pc = 9 ->
            AssignDiv(st, "pressure",
                Div64(Mul64(Sub64(Shl64(Var64(st.pressure), 31),
                                  Var64(st.var2)),
                            I64(3125)),
                      Var64(st.var1)))
      [] st.pc = 10 ->
            Assign(st, "var1",
                Shr64(Mul64(Mul64(I64(self.dig_P9),
                                  Shr64(Var64(st.pressure), 13)),
                            Shr64(Var64(st.pressure), 13)),
                      25))
      [] st.pc = 11 ->
            Assign(st, "var2",
                Shr64(Mul64(I64(self.dig_P8), Var64(st.pressure)), 19))
      [] st.pc = 12 ->
            Assign(st, "pressure",
                Add64(Shr64(Add64(Add64(Var64(st.pressure), Var64(st.var1)),
                                  Var64(st.var2)),
                            8),
                      Shl64(I64(self.dig_P7), 4)))

RECURSIVE pressure_run(_, _, _)
pressure_run(self, raw_pressure, st) ==
    IF st.panic \/ st.returned \/ st.pc > 12 THEN st
    ELSE pressure_run(self, raw_pressure,
                      pressure_stmt(self, raw_pressure, st))

\* The low 32 bits of a word, least significant byte first: `as u32`.
AsU32(x) == <<x[1], x[2], x[3], x[4]>>

pressure_result(st) ==
    [kind |-> IF st.panic THEN "Panic" ELSE "Ok",
     value |-> AsU32(st.pressure)]

\* CalibrationData::compensate_pressure(&self, raw_pressure)
compensate_pressure(self, raw_pressure, checks) ==
    pressure_result(
        pressure_run(self, raw_pressure,
            [checks |-> checks, panic |-> FALSE, returned |-> FALSE,
             pc |-> 1, var1 |-> ZeroW, var2 |-> ZeroW, pressure |-> ZeroW]))

\* The statements of compensate_humidity.
humidity_stmt(self, raw_humidity, st) ==
    CASE st.pc = 1 ->
            Assign(st, "var1", Sub32(I32(self.t_fine), I32(76800)))
      [] st.pc = 2 ->
            Assign(st, "var2", Mul32(I32(raw_humidity), I32(16384)))
      [] st.pc = 3 ->
            Assign(st, "var3", Mul32(I32(self.dig_H4), I32(1048576)))
      [] st.pc = 4 ->
            Assign(st, "var4", Mul32(I32(self.dig_H5), I32(st.var1)))
      [] st.pc = 5 ->
            Assign(st, "var5",
                Div32(Add32(Sub32(Sub32(I32(st.var2), I32(st.var3)),
                                  I32(st.var4)),
                            I32(16384)),
                      32768))
      [] st.pc = 6 ->
            Assign(st, "var2",
                Div32(Mul32(I32(st.var1), I32(self.dig_H6)), 1024))
      [] st.pc = 7 ->
            Assign(st, "var3",
                Div32(Mul32(I32(st.var1), I32(self.dig_H3)), 2048))
      [] st.pc = 8 ->
            Assign(st, "var4",
                Add32(Div32(Mul32(I32(st.var2),
                                  Add32(I32(st.var3), I32(32768))),
                            1024),
                      I32(2097152)))
      [] st.pc = 9 ->
            Assign(st, "var2",
                Div32(Add32(Mul32(I32(st.var4), I32(self.dig_H2)),
                            I32(8192)),
                      16384))
      [] st.pc = 10 ->
            Assign(st, "var3", Mul32(I32(st.var5), I32(st.var2)))
      [] st.pc = 11 ->
            Assign(st, "var4",
                Div32(Mul32(Div32(I32(st.var3), 32768),
                            Div32(I32(st.var3), 32768)),
                      128))
      [] st.pc = 12 ->
            Assign(st, "var5",
                Sub32(I32(st.var3),
                      Div32(Mul32(I32(st.var4), I32(self.dig_H1)), 16)))
      [] st.pc = 13 ->
            IF st.var5 < 0 THEN Assign(st, "var5", I32(0)) ELSE Skip(st)
      [] st.pc = 14 ->
            IF st.var5 > 419430400 THEN Assign(st, "var5", I32(419430400))
            ELSE Skip(st)
      [] st.pc = 15 ->
            Assign(st, "humidity", Div32(I32(st.var5), 4096))
      [] st.pc = 16 ->
            IF st.humidity > 102400 THEN Assign(st, "humidity", I32(102400))
            ELSE Skip(st)

RECURSIVE humidity_run(_, _, _)
humidity_run(self, raw_humidity, st) ==
    IF st.panic \/ st.pc > 16 THEN st
    ELSE humidity_run(self, raw_humidity,
                      humidity_stmt(self, raw_humidity, st))

\* `humidity as u32` of a number the clamps keep non-negative.
humidity_result(st) ==
    [kind |-> IF st.panic THEN "Panic" ELSE "Ok", value |-> st.humidity]

\* CalibrationData::compensate_humidity(&self, raw_humidity)
compensate_humidity(self, raw_humidity, checks) ==
    humidity_result(
        humidity_run(self, raw_humidity,
            [checks |-> checks, panic |-> FALSE, pc |-> 1, var1 |-> 0,
             var2 |-> 0, var3 |-> 0, var4 |-> 0, var5 |-> 0,
             humidity |-> 0]))

\* ------------------------------------------------------------------------
\* The bus and the sensor behind it.
\* ------------------------------------------------------------------------

\* DeviceAddr
AD0 == 118

AD1 == 119

DeviceAddr == {AD0, AD1}

\* Register
RegId == 208

RegCalib00 == 136

RegCalib26 == 225

RegPressure == 247

\* The sensor's reply to a read of len bytes starting at register reg: the
\* register address increments by itself.
DevRead(mem, reg, len) == [i \in 1..len |-> mem[reg + i - 1]]

\* i2c.write(address, bytes); ok: the transaction succeeded.
i2c_write(addr, bytes, ok) ==
    [op |-> "write", addr |-> addr, bytes |-> bytes, len |-> 0, ok |-> ok,
     data |-> <<>>]

\* BME280::read_register: i2c.write_read(address, &[register], buffer) with a
\* buffer of len bytes, which a successful transaction fills.
read_register(addr, register, len, mem, ok) ==
    [op |-> "write_read", addr |-> addr, bytes |-> <<register>>, len |-> len,
     ok |-> ok, data |-> IF ok THEN DevRead(mem, register, len) ELSE <<>>]

\* A bus error converted by From<I2cError> for Error: ErrorKind::Other.
ErrOther == [kind |-> "Err", error |-> "Other"]

\* A bus error returned as it is (Result<u8, E>).
ErrBus == [kind |-> "Err", error |-> "E"]

\* ------------------------------------------------------------------------
\* BME280, the driver facade.  fail names the bus transaction of the call
\* that fails (0: none does); every error returns at once, so one call sees
\* at most one failure.
\* ------------------------------------------------------------------------

\* BME280::read_device_id_register
read_device_id_register(addr, mem, fail) ==
    LET t == read_register(addr, RegId, 1, mem, fail # 1)
    IN [log |-> <<t>>,
        res |-> IF t.ok THEN [kind |-> "Ok", value |-> t.data[1]] ELSE ErrBus]

\* read_calibration with the two reads issued in the other order.
read_calibration_swapped(addr, mem, fail) ==
    LET t2 == read_register(addr, RegCalib26, CalibLen - 26, mem, fail # 1)
        t1 == read_register(addr, RegCalib00, 26, mem, fail # 2)
    IN IF ~t2.ok THEN [log |-> <<t2>>, res |-> ErrOther]
       ELSE IF ~t1.ok THEN [log |-> <<t2, t1>>, res |-> ErrOther]
       ELSE [log |-> <<t2, t1>>, res |-> from_vec(t1.data \o t2.data)]

\* BME280::read_calibration: buffer[..26] and buffer[26..] of a 42-byte
\* buffer are filled by one read each, then decoded.
read_calibration(addr, mem, fail) ==
    LET t1 == read_register(addr, RegCalib00, 26, mem, fail # 1)
        t2 == read_register(addr, RegCalib26, CalibLen - 26, mem, fail # 2)
    IN IF ~t1.ok THEN [log |-> <<t1>>, res |-> ErrOther]
       ELSE IF ~t2.ok THEN [log |-> <<t1, t2>>, res |-> ErrOther]
       ELSE [log |-> <<t1, t2>>, res |-> from_vec(t1.data \o t2.data)]

\* new with the error of read_calibration dropped: the instance keeps
\* CalibrationData::default().
new_default_on_error(addr, mem, fail) ==
    LET n == [address |-> addr, calibration |-> CalibrationDefault]
        rc == read_calibration(n.address, mem, fail)
    IN IF rc.res.kind = "Ok"
       THEN [log |-> rc.log,
             res |-> [kind |-> "Ok",
                      value |-> [n EXCEPT !.calibration = rc.res.value]]]
       ELSE [log |-> rc.log, res |-> [kind |-> "Ok", value |-> n]]

\* BME280::new: the instance starts with CalibrationData::default() and is
\* returned only with the calibration read_calibration returned.
new(addr, mem, fail) ==
    LET n == [address |-> addr, calibration |-> CalibrationDefault]
        rc == read_calibration(n.address, mem, fail)
    IN IF rc.res.kind = "Ok"
       THEN [log |-> rc.log,
             res |-> [kind |-> "Ok",
                      value |-> [n EXCEPT !.calibration = rc.res.value]]]
       ELSE [log |-> rc.log,
             res |-> [kind |-> "Err", error |-> rc.res.error]]

\* The RawMeasurement read_raw_values builds from its 8-byte buffer.
unpack_raw(buffer) ==
    [Pressure |->
        BitOr(BitOr(At(buffer, 0) * 4096, At(buffer, 1) * 16),
              At(buffer, 2) \div 16),
     Temperature |->
        BitOr(BitOr(At(buffer, 3) * 4096, At(buffer, 4) * 16),
              At(buffer, 5) \div 16),
     Humidity |-> BitOr(Shl16(At(buffer, 6), 8), At(buffer, 7))]

\* BME280::read_raw_values; ok: its bus transaction succeeds.
read_raw_values(addr, mem, ok) ==
    LET t == read_register(addr, RegPressure, 8, mem, ok)
    IN IF ~t.ok THEN [log |-> <<t>>, res |-> ErrOther]
       ELSE [log |-> <<t>>,
             res |-> [kind |-> "Ok", value |-> unpack_raw(t.data)]]

\* measure with the two configuration writes in the other order.
measure_bus_swapped(addr, mem, fail) ==
    LET w1 == i2c_write(addr, <<244, 37>>, fail # 1)
        w2 == i2c_write(addr, <<242, 1>>, fail # 2)
        rr == read_raw_values(addr, mem, fail # 3)
    IN IF ~w1.ok THEN [log |-> <<w1>>, res |-> ErrOther]
       ELSE IF ~w2.ok THEN [log |-> <<w1, w2>>, res |-> ErrOther]
       ELSE [log |-> <<w1, w2>> \o rr.log, res |-> rr.res]

\* measure with the results of the two configuration writes dropped: the
\* burst is read whatever became of them.
measure_bus_unchecked(addr, mem, fail) ==
    LET w1 == i2c_write(addr, <<242, 1>>, fail # 1)
        w2 == i2c_write(addr, <<244, 37>>, fail # 2)
        rr == read_raw_values(addr, mem, fail # 3)
    IN [log |-> <<w1, w2>> \o rr.log, res |-> rr.res]

\* The two configuration writes and the burst read of BME280::measure.
measure_bus(addr, mem, fail) ==
    LET w1 == i2c_write(addr, <<242, 1>>, fail # 1)
        w2 == i2c_write(addr, <<244, 37>>, fail # 2)
        rr == read_raw_values(addr, mem, fail # 3)
    IN IF ~w1.ok THEN [log |-> <<w1>>, res |-> ErrOther]
       ELSE IF ~w2.ok THEN [log |-> <<w1, w2>>, res |-> ErrOther]
       ELSE [log |-> <<w1, w2>> \o rr.log, res |-> rr.res]

\* The Measurement built from the three compensations t, p and h, each
\* run on the CalibrationData c the temperature compensation left behind.
\* steps lists the compensations run, each with the t_fine it wrote
\* (temperature) or read (pressure, humidity).  Each value is the integer
\* output over its divisor: the f64 quotient value / divisor.
Measurement(c, t, p, h) ==
    [kind |-> IF t.kind = "Panic" \/ p.kind = "Panic" \/ h.kind = "Panic"
              THEN "Panic" ELSE "Ok",
     self |-> c,
     wrote |-> t.wrote,
     steps |->
        <<[step |-> "temperature", t_fine |-> c.t_fine]>>
        \o (IF t.kind = "Panic" THEN <<>>
            ELSE <<[step |-> "pressure", t_fine |-> c.t_fine]>>)
        \o (IF t.kind = "Panic" \/ p.kind = "Panic" THEN <<>>
            ELSE <<[step |-> "humidity", t_fine |-> c.t_fine]>>),
     value |->
        [Temperature |-> [value |-> t.value, divisor |-> 100],
         Pressure |-> [value |-> p.value, divisor |-> 256],
         Humidity |-> [value |-> h.value, divisor |-> 1024]]]

\* The Measurement expression of BME280::measure once the temperature
\* compensation t has run: the pressure and the humidity compensation read
\* the CalibrationData it left behind.
measurement_after(t, raw, checks) ==
    Measurement(t.self, t,
                compensate_pressure(t.self, raw.Pressure, checks),
                compensate_humidity(t.self, raw.Humidity, checks))

\* The Measurement expression with the pressure and the humidity
\* compensation run on the CalibrationData as it was before the temperature
\* compensation.
measure_compensate_stale(calibration, raw, checks) ==
    Measurement(calibration,
                compensate_temperature(calibration, raw.Temperature, checks),
                compensate_pressure(calibration, raw.Pressure, checks),
                compensate_humidity(calibration, raw.Humidity, checks))

\* The Measurement expression of BME280::measure: its fields are evaluated
\* in the order written, temperature, pressure, humidity, on the same
\* CalibrationData.
measure_compensate(calibration, raw, checks) ==
    measurement_after(
        compensate_temperature(calibration, raw.Temperature, checks),
        raw, checks)

\* What BME280::measure returns and leaves behind after its bus
\* transactions b and, when they succeeded, the compensations c.
measure_result(self, b, c) ==
    [log |-> b.log, kind |-> c.kind, error |-> "none", value |-> c.value,
     wrote |-> c.wrote, self |-> [self EXCEPT !.calibration = c.self],
     steps |-> c.steps]

measure_after(self, b, checks) ==
    IF b.res.kind = "Err"
    THEN [log |-> b.log, kind |-> "Err", error |-> b.res.error,
          value |-> <<>>, wrote |-> FALSE, self |-> self, steps |-> <<>>]
    ELSE measure_result(self, b,
            measure_compensate(self.calibration, b.res.value, checks))

\* BME280::measure on the driver self = [address, calibration].
measure(self, mem, fail, checks) ==
    measure_after(self, measure_bus(self.address, mem, fail), checks)

\* ------------------------------------------------------------------------
\* Inputs: coefficient sets, the calibration block that holds them, bursts.
\* ------------------------------------------------------------------------

\* How many coefficient sets and how many measurement bursts are tried, and
\* by how many bytes a buffer handed to from_vec may miss the right length.
NumProfiles == 4

NumBursts == 4

MaxLenDelta == 2

\* The datasheet's example coefficients.
RefCoeffs ==
    [dig_T1 |-> 27504, dig_T2 |-> 26435, dig_T3 |-> -1000,
     dig_P1 |-> 36477, dig_P2 |-> -10685, dig_P3 |-> 3024, dig_P4 |-> 2855,
     dig_P5 |-> 140, dig_P6 |-> -7, dig_P7 |-> 15500, dig_P8 |-> -14600,
     dig_P9 |-> 6000,
     dig_H1 |-> 75, dig_H2 |-> 362, dig_H3 |-> 0, dig_H4 |-> 313,
     dig_H5 |-> 50, dig_H6 |-> 30, t_fine |-> 0]

\* The least and the greatest value of every coefficient's type (H4 and H5:
\* of the 12 bits packed in the block).
MinCoeffs ==
    [dig_T1 |-> 0, dig_T2 |-> -32768, dig_T3 |-> -32768,
     dig_P1 |-> 0, dig_P2 |-> -32768, dig_P3 |-> -32768, dig_P4 |-> -32768,
     dig_P5 |-> -32768, dig_P6 |-> -32768, dig_P7 |-> -32768,
     dig_P8 |-> -32768, dig_P9 |-> -32768,
     dig_H1 |-> 0, dig_H2 |-> -32768, dig_H3 |-> 0, dig_H4 |-> -2048,
     dig_H5 |-> -2048, dig_H6 |-> -128, t_fine |-> 0]

MaxCoeffs ==
    [dig_T1 |-> 65535, dig_T2 |-> 32767, dig_T3 |-> 32767,
     dig_P1 |-> 65535, dig_P2 |-> 32767, dig_P3 |-> 32767, dig_P4 |-> 32767,
     dig_P5 |-> 32767, dig_P6 |-> 32767, dig_P7 |-> 32767,
     dig_P8 |-> 32767, dig_P9 |-> 32767,
     dig_H1 |-> 255, dig_H2 |-> 32767, dig_H3 |-> 255, dig_H4 |-> 2047,
     dig_H5 |-> 2047, dig_H6 |-> 127, t_fine |-> 0]

\* A sensor near the datasheet's example, different for every k.
GenCoeffs(k) ==
    [dig_T1 |-> 27504 + 131 * k, dig_T2 |-> 26435 - 97 * k,
     dig_T3 |-> -1000 + 53 * k,
     dig_P1 |-> 36477 + 211 * k, dig_P2 |-> -10685 + 89 * k,
     dig_P3 |-> 3024 - 17 * k, dig_P4 |-> 2855 + 71 * k,
     dig_P5 |-> 140 - 61 * k, dig_P6 |-> -7 + 3 * k,
     dig_P7 |-> 15500 - 307 * k, dig_P8 |-> -14600 + 401 * k,
     dig_P9 |-> 6000 - 113 * k,
     dig_H1 |-> 75 + k, dig_H2 |-> 362 + 5 * k, dig_H3 |-> k % 3,
     dig_H4 |-> 313 + 7 * k, dig_H5 |-> 50 - 13 * k, dig_H6 |-> 30 - 9 * k,
     t_fine |-> 0]

Coeffs(k) ==
    CASE k = 1 -> RefCoeffs
      [] k = 2 -> MinCoeffs
      [] k = 3 -> MaxCoeffs
      [] OTHER -> GenCoeffs(k)

\* The two bytes of a 16-bit value, the low byte first.
Lo(v) == v % 256

Hi(v) == (v \div 256) % 256

\* The 42-byte calibration block that holds coefficient set c: pairs low
\* byte first at offsets 0..22 and 26, single bytes at 25, 28 and 32, H4 and
\* H5 packed in bytes 29..31 with byte 30 shared (low nibble H4[3:0], high
\* nibble H5[3:0]); the bytes no coefficient uses are 0.
Encode(c) ==
    <<Lo(c.dig_T1), Hi(c.dig_T1), Lo(c.dig_T2), Hi(c.dig_T2),
      Lo(c.dig_T3), Hi(c.dig_T3), Lo(c.dig_P1), Hi(c.dig_P1),
      Lo(c.dig_P2), Hi(c.dig_P2), Lo(c.dig_P3), Hi(c.dig_P3),
      Lo(c.dig_P4), Hi(c.dig_P4), Lo(c.dig_P5), Hi(c.dig_P5),
      Lo(c.dig_P6), Hi(c.dig_P6), Lo(c.dig_P7), Hi(c.dig_P7),
      Lo(c.dig_P8), Hi(c.dig_P8), Lo(c.dig_P9), Hi(c.dig_P9),
      0, c.dig_H1, Lo(c.dig_H2), Hi(c.dig_H2), c.dig_H3,
      (c.dig_H4 \div 16) % 256,
      (c.dig_H4 % 16) + 16 * (c.dig_H5 % 16),
      (c.dig_H5 \div 16) % 256,
      c.dig_H6 % 256,
      0, 0, 0, 0, 0, 0, 0, 0, 0>>

\* The burst of the datasheet's example (pressure 415148, temperature
\* 519888), the two extreme bursts, and a different burst for every k.
Burst(k) ==
    CASE k = 1 -> <<101, 90, 192, 126, 237, 0, 110, 60>>
      [] k = 2 -> <<0, 0, 0, 0, 0, 0, 0, 0>>
      [] k = 3 -> <<255, 255, 255, 255, 255, 255, 255, 255>>
      [] OTHER -> [i \in 1..8 |->
                      ((k * 89 + i * 151 + k * i * 7 + 43) * 211) % 256]

\* The sensor's registers: the calibration block at 0x88.. (26 bytes) and
\* 0xE1.. (16 bytes), the measurement burst at 0xF7.., the chip id at 0xD0.
DeviceImage(calib, burst) ==
    [a \in 0..255 |->
        IF a >= RegCalib00 /\ a < RegCalib00 + 26 THEN calib[a - RegCalib00 + 1]
        ELSE IF a >= RegCalib26 /\ a < RegCalib26 + 16
             THEN calib[26 + a - RegCalib26 + 1]
        ELSE IF a >= RegPressure /\ a < RegPressure + 8
             THEN burst[a - RegPressure + 1]
        ELSE IF a = RegId THEN 96 ELSE 0]

\* A buffer of len bytes: buf cut, or extended with zeros.
Resize(buf, len) == [i \in 1..len |-> IF i <= Len(buf) THEN buf[i] ELSE 0]

\* The buffer lengths handed to from_vec.
Lengths == {0, 33} \cup ((CalibLen - MaxLenDelta)..(CalibLen + MaxLenDelta))

NoAddr == "none"

NoCal == <<>>

\* ------------------------------------------------------------------------
\* The driver facade as a state machine (Spec).
\* ------------------------------------------------------------------------

Init ==
    /\ overflow_checks \in BOOLEAN
    /\ drv = "Uninitialized"
    /\ address = NoAddr
    /\ cal = NoCal
    /\ fine_src = "none"
    /\ bus = <<>>
    /\ ret = [op |-> "none", kind |-> "none"]

\* BME280::new(i2c, addr) against a sensor holding coefficient set k.
New(addr, k, fail) ==
    /\ drv = "Uninitialized"
    /\ \E r \in {new(addr, DeviceImage(Encode(Coeffs(k)), Burst(1)), fail)} :
          /\ bus' = r.log
          /\ ret' = [op |-> "new", kind |-> r.res.kind, addr |-> addr,
                     calib |-> Encode(Coeffs(k)), fail |-> fail]
          /\ IF r.res.kind = "Ok"
             THEN /\ drv' = "Ready"
                  /\ address' = r.res.value.address
                  /\ cal' = r.res.value.calibration
                  /\ fine_src' = "from_vec"
             ELSE UNCHANGED <<drv, address, cal, fine_src>>
    /\ UNCHANGED overflow_checks

\* sensor.measure() with burst k in the sensor's data registers.
Measure(k, fail) ==
    /\ drv = "Ready"
    /\ \E m \in {measure([address |-> address, calibration |-> cal],
                         DeviceImage(Encode(Coeffs(1)), Burst(k)), fail,
                         overflow_checks)} :
          /\ bus' = m.log
          /\ address' = m.self.address
          /\ cal' = m.self.calibration
          /\ fine_src' = IF m.wrote THEN "compensate_temperature" ELSE fine_src
          /\ drv' = IF m.kind = "Panic" THEN "Panicked" ELSE drv
          /\ ret' = [op |-> "measure", kind |-> m.kind, fail |-> fail,
                     error |-> m.error, before |-> cal, steps |-> m.steps,
                     value |-> IF m.kind = "Ok" THEN <<m.value>> ELSE <<>>]
    /\ UNCHANGED overflow_checks

\* sensor.read_device_id_register()
ReadDeviceId(fail) ==
    /\ drv = "Ready"
    /\ \E r \in {read_device_id_register(
                    address, DeviceImage(Encode(Coeffs(1)), Burst(1)), fail)} :
          /\ bus' = r.log
          /\ ret' = [op |-> "read_device_id_register", kind |-> r.res.kind,
                     fail |-> fail]
    /\ UNCHANGED <<overflow_checks, drv, address, cal, fine_src>>

Next ==
    \/ \E addr \in DeviceAddr, k \in 1..NumProfiles, fail \in 0..2 :
            New(addr, k, fail)
    \/ \E k \in 1..NumBursts, fail \in 0..3 : Measure(k, fail)
    \/ \E fail \in 0..1 : ReadDeviceId(fail)

Spec == Init /\ [][Next]_vars

\* ------------------------------------------------------------------------
\* The public operations of CalibrationData called directly (SpecCal).  A
\* panic ends the caller.
\* ------------------------------------------------------------------------

\* CalibrationData::from_vec on the block of coefficient set k, resized to
\* len bytes.
FromVec(k, len) ==
    /\ ret.kind # "Panic"
    /\ \E r \in {from_vec(Resize(Encode(Coeffs(k)), len))} :
          /\ ret' = [op |-> "from_vec", kind |-> r.kind,
                     input |-> Resize(Encode(Coeffs(k)), len),
                     coeffs |-> Coeffs(k), read |-> r.read,
                     value |-> IF r.kind = "Ok" THEN <<r.value>> ELSE <<>>,
                     error |-> IF r.kind = "Err" THEN r.error ELSE "none"]
          /\ IF r.kind = "Ok"
             THEN cal' = r.value /\ fine_src' = "from_vec"
             ELSE UNCHANGED <<cal, fine_src>>
    /\ UNCHANGED <<overflow_checks, drv, address, bus>>

\* cal.compensate_temperature(raw), raw the temperature of burst k.
CompensateTemperature(k) ==
    /\ fine_src # "none"
    /\ ret.kind # "Panic"
    /\ \E r \in {compensate_temperature(cal, unpack_raw(Burst(k)).Temperature,
                                        overflow_checks)} :
          /\ cal' = r.self
          /\ fine_src' = IF r.wrote THEN "compensate_temperature" ELSE fine_src
          /\ ret' = [op |-> "compensate_temperature", kind |-> r.kind,
                     raw |-> unpack_raw(Burst(k)).Temperature, before |-> cal,
                     fine_from |-> fine_src,
                     value |-> IF r.kind = "Ok" THEN <<r.value>> ELSE <<>>]
    /\ UNCHANGED <<overflow_checks, drv, address, bus>>

\* cal.compensate_pressure(raw), raw the pressure of burst k.
CompensatePressure(k) ==
    /\ fine_src # "none"
    /\ ret.kind # "Panic"
    /\ \E r \in {compensate_pressure(cal, unpack_raw(Burst(k)).Pressure,
                                     overflow_checks)} :
          ret' = [op |-> "compensate_pressure", kind |-> r.kind,
                  raw |-> unpack_raw(Burst(k)).Pressure, before |-> cal,
                  fine_from |-> fine_src,
                  value |-> IF r.kind = "Ok" THEN <<r.value>> ELSE <<>>]
    /\ UNCHANGED <<overflow_checks, drv, address, cal, fine_src, bus>>

\* cal.compensate_humidity(raw), raw the humidity of burst k.
CompensateHumidity(k) ==
    /\ fine_src # "none"
    /\ ret.kind # "Panic"
    /\ \E r \in {compensate_humidity(cal, unpack_raw(Burst(k)).Humidity,
                                     overflow_checks)} :
          ret' = [op |-> "compensate_humidity", kind |-> r.kind,
                  raw |-> unpack_raw(Burst(k)).Humidity, before |-> cal,
                  fine_from |-> fine_src,
                  value |-> IF r.kind = "Ok" THEN <<r.value>> ELSE <<>>]
    /\ UNCHANGED <<overflow_checks, drv, address, cal, fine_src, bus>>

NextCal ==
    \/ \E k \in 1..NumProfiles, len \in Lengths : FromVec(k, len)
    \/ \E k \in 1..NumBursts : CompensateTemperature(k)
    \/ \E k \in 1..NumBursts : CompensatePressure(k)
    \/ \E k \in 1..NumBursts : CompensateHumidity(k)

SpecCal == Init /\ [][NextCal]_vars

\* ------------------------------------------------------------------------
\* The claims of the specification, each checked under Spec or SpecCal.
\* ------------------------------------------------------------------------

\* The 18 coefficients of a CalibrationData: the value less its fine-value.
Coefficients(c) == [c EXCEPT !.t_fine = 0]

\* The calibration block the last two reads of the bus log returned.
BlockRead == bus[1].data \o bus[2].data

\* C1 (as claimed): every compensate_pressure and compensate_humidity call
\* uses a fine-value a compensate_temperature call on the same coefficient
\* set produced; none runs on the fine-value 0 that from_vec leaves.
C1_FineValueFromTemperature ==
    ret.op \in {"compensate_pressure", "compensate_humidity"}
        => ret.fine_from = "compensate_temperature"

\* C2: the driver is Ready only after both calibration reads succeeded and
\* their 42 bytes were decoded; when a read or the decode fails, new returns
\* an error and there is no driver.  The calibration of a driver is always
\* the decoded block of the sensor, never CalibrationData::default().
C2_ReadyOnlyAfterDecode ==
    /\ ret.op = "new" =>
        /\ ret.kind = "Ok" <=>
            /\ Len(bus) = 2
            /\ bus[1].ok /\ bus[2].ok
            /\ from_vec(BlockRead).kind = "Ok"
        /\ ret.kind = "Ok" =>
            /\ drv = "Ready"
            /\ cal = from_vec(BlockRead).value
            /\ BlockRead = ret.calib
        /\ ret.kind # "Ok" =>
            /\ ret.kind = "Err"
            /\ drv = "Uninitialized"
            /\ cal = NoCal
            /\ address = NoAddr
    /\ drv # "Uninitialized" =>
        /\ cal # NoCal
        /\ Coefficients(cal) # CalibrationDefault
        /\ \E k \in 1..NumProfiles :
                Coefficients(cal) = from_vec(Encode(Coeffs(k))).value
    /\ ret.op = "measure" => Coefficients(ret.before) # CalibrationDefault

C2_Witness ==
    /\ ret.op = "new"
    /\ ret.kind = "Ok"
    /\ drv = "Ready"
    /\ cal.dig_T1 = 27504

\* C3 (as claimed): a successful new has issued three reads in this order:
\* 1 byte at the identity register, 26 bytes at Calib00, 16 bytes at Calib26.
C3_IdentityThenCalibration ==
    ret.op = "new" /\ ret.kind = "Ok" =>
        /\ Len(bus) = 3
        /\ bus[1].bytes = <<RegId>> /\ bus[1].len = 1
        /\ bus[2].bytes = <<RegCalib00>> /\ bus[2].len = 26
        /\ bus[3].bytes = <<RegCalib26>> /\ bus[3].len = 16

\* C3 (amended): a successful new has issued exactly two transactions to
\* the address it was given, in this order: a write-then-read of 26 bytes at
\* Calib00 and one of 16 bytes at Calib26; it reads no identity register;
\* the calibration of the driver is the decoded concatenation of the two
\* replies, 26 bytes followed by 16.
C3_CalibrationReadsOnly ==
    ret.op = "new" /\ ret.kind = "Ok" =>
        /\ Len(bus) = 2
        /\ \A i \in 1..2 :
            /\ bus[i].op = "write_read"
            /\ bus[i].addr = ret.addr
            /\ bus[i].ok
            /\ bus[i].bytes # <<RegId>>
        /\ bus[1].bytes = <<RegCalib00>> /\ bus[1].len = 26
        /\ Len(bus[1].data) = 26
        /\ bus[2].bytes = <<RegCalib26>> /\ bus[2].len = 16
        /\ Len(bus[2].data) = 16
        /\ drv = "Ready"
        /\ address = ret.addr
        /\ cal = from_vec(bus[1].data \o bus[2].data).value

C3_Witness ==
    /\ ret.op = "new"
    /\ ret.kind = "Ok"
    /\ ret.addr = AD1
    /\ Len(bus) = 2
    /\ cal.dig_P1 = 36477

\* C4: a successful measure has issued exactly three transactions to the
\* driver's address, in this order: the write of 0xF2 with 0b001, the write
\* of 0xF4 with 0b00100101, the write-then-read of 8 bytes at 0xF7.
C4_MeasureSequence ==
    ret.op = "measure" /\ ret.kind = "Ok" =>
        /\ Len(bus) = 3
        /\ \A i \in 1..3 : bus[i].addr = address /\ bus[i].ok
        /\ bus[1].op = "write" /\ bus[1].bytes = <<242, 1>>
        /\ bus[2].op = "write" /\ bus[2].bytes = <<244, 37>>
        /\ bus[3].op = "write_read" /\ bus[3].bytes = <<RegPressure>>
        /\ bus[3].len = 8 /\ Len(bus[3].data) = 8

C4_Witness ==
    /\ ret.op = "measure"
    /\ ret.kind = "Ok"
    /\ Len(bus) = 3
    /\ address = AD0

\* The transactions of measure in their order: what each writes.
MeasureWrites == <<<<242, 1>>, <<244, 37>>, <<RegPressure>>>>

\* C5: when transaction number fail of measure fails, measure returns the
\* bus error at once: the transactions before it succeeded and were issued
\* once each in the order of the sequence, the failed one is the last, no
\* compensation has run, no Measurement is returned and the calibration is
\* as it was.
C5_FirstErrorReturned ==
    ret.op = "measure" /\ ret.fail \in 1..3 =>
        /\ ret.kind = "Err"
        /\ ret.error = ErrOther.error
        /\ Len(bus) = ret.fail
        /\ \A i \in 1..Len(bus) :
            /\ bus[i].bytes = MeasureWrites[i]
            /\ bus[i].ok <=> i < ret.fail
        /\ ret.steps = <<>>
        /\ ret.value = <<>>
        /\ cal = ret.before
        /\ drv = "Ready"

C5_Witness ==
    /\ ret.op = "measure"
    /\ ret.fail = 2
    /\ ret.kind = "Err"
    /\ Len(bus) = 2

\* The temperature compensation of the datasheet's example has returned.
ReferenceTemperatureCall ==
    /\ ret.op = "compensate_temperature"
    /\ ret.raw = 519888
    /\ ret.before.dig_T1 = 27504
    /\ ret.before.dig_T2 = 26435
    /\ ret.before.dig_T3 = -1000

\* C6 (as claimed): for the datasheet's example compensate_temperature
\* stores t_fine = 128422 and returns 2386.
C6_ReferenceOutput2386 ==
    ReferenceTemperatureCall =>
        /\ ret.kind = "Ok"
        /\ cal.t_fine = 128422
        /\ ret.value = <<2386>>

\* C6 (amended): for the datasheet's example compensate_temperature stores
\* t_fine = 128422 and returns 2508, which is (t_fine * 5 + 128) >> 8 in
\* 32-bit signed arithmetic.
C6_ReferenceOutput2508 ==
    ReferenceTemperatureCall =>
        /\ ret.kind = "Ok"
        /\ cal.t_fine = 128422
        /\ ret.value = <<2508>>
        /\ ret.value[1] = (cal.t_fine * 5 + 128) \div 256

C6_Witness ==
    /\ ReferenceTemperatureCall
    /\ ret.kind = "Ok"
    /\ fine_src = "compensate_temperature"

\* C7 (as claimed): compensate_humidity completes, whatever the raw
\* humidity, the fine-value and the coefficients, and returns a value in
\* 0..102400.
C7_HumidityInRange ==
    ret.op = "compensate_humidity" =>
        /\ ret.kind = "Ok"
        /\ ret.value[1] \in 0..102400

\* C8: from_vec on a buffer whose length is not 42 returns the
\* calibration-length error, reads no byte of it and produces no
\* CalibrationData; on a buffer of 42 bytes it returns Ok.
C8_LengthChecked ==
    ret.op = "from_vec" =>
        IF Len(ret.input) # CalibLen
        THEN /\ ret.kind = "Err"
             /\ ret.error = "CalibrationLengthError"
             /\ ret.read = {}
             /\ ret.value = <<>>
        ELSE /\ ret.kind = "Ok"
             /\ ret.error = "none"
             /\ Len(ret.value) = 1
             /\ cal = ret.value[1]

C8_Witness ==
    /\ ret.op = "from_vec"
    /\ Len(ret.input) = CalibLen + 1
    /\ ret.kind = "Err"

\* C9 (as claimed): from_vec on the 42-byte block that holds a coefficient
\* set returns that coefficient set, every field of it, H4 and H5 included.
C9_RoundTrip ==
    ret.op = "from_vec" /\ Len(ret.input) = CalibLen =>
        /\ ret.kind = "Ok"
        /\ ret.value = <<ret.coeffs>>

\* The fine-value the temperature compensation computes on the
\* CalibrationData c from the raw temperature of an 8-byte burst.
FineOf(c, burst) ==
    compensate_temperature(c, unpack_raw(burst).Temperature,
                           overflow_checks).self.t_fine

\* C10: in every measure call, the first of a driver or a later one, the
\* temperature compensation runs first and the pressure and the humidity
\* compensation read the fine-value it computed from the raw temperature
\* of the burst this call read; the call changes neither the 18
\* coefficients nor the address.
C10_FreshFineValue ==
    [][ret'.op = "measure" =>
        /\ address' = address
        /\ Coefficients(cal') = Coefficients(cal)
        /\ ret'.before = cal
        /\ ret'.kind = "Ok" => Len(ret'.steps) = 3
        /\ ret'.steps # <<>> =>
            /\ Len(bus') = 3
            /\ ret'.steps[1].step = "temperature"
            /\ cal'.t_fine = FineOf(cal, bus'[3].data)
            /\ \A i \in 1..Len(ret'.steps) :
                ret'.steps[i].t_fine = FineOf(cal, bus'[3].data)
            /\ Len(ret'.steps) >= 2 => ret'.steps[2].step = "pressure"
            /\ Len(ret'.steps) >= 3 => ret'.steps[3].step = "humidity"]_vars

C10_Witness ==
    /\ ret.op = "measure"
    /\ ret.kind = "Ok"
    /\ Len(ret.steps) = 3
    /\ ret.before.t_fine # 0
    /\ ret.steps[2].t_fine # ret.before.t_fine
    /\ ret.steps[3].t_fine = cal.t_fine

====
